---- MODULE Spec2Model ----
(***************************************************************************)
(* A model of ratatui-command-runner (src/src/main.rs): the App state      *)
(* machine driven by the key events of main's loop, the child processes    *)
(* started by App::execute_command, their two line-reader threads and the  *)
(* mpsc channel that carries the lines to App::check_command_output.       *)
(*                                                                         *)
(* Strings are sequences of one-character strings; indices kept in the     *)
(* state are the program's 0-based indices; Option<T> is a sequence of     *)
(* length 0 (None) or 1 (Some(x)).                                         *)
(***************************************************************************)
EXTENDS Naturals, Sequences, FiniteSets, TLC

VARIABLES
  is_windows,        \* App.is_windows
  mode,              \* App.mode
  selected_index,    \* App.selected_index : Option<usize>
  filtered_commands, \* App.filtered_commands : Vec<usize>
  search_input,      \* App.search_input
  command_output,    \* App.command_output
  output_receiver,   \* App.output_receiver : Option<Receiver>, the id of its channel
  elapsed,           \* Instant::now() - App.last_update, in ms
  spinner_state,     \* App.spinner_state
  pc,                \* where main's loop stands: "loop", "drain", "poll", "exited"
  key,               \* the key code of the last key event main read
  channel,           \* the lines queued in the channel whose receiver App holds
  available,         \* how many of the lines that were queued when
                     \* check_command_output was called it has yet to receive
  children           \* one record per spawned child: its pipes and reader threads

vars ==
  << is_windows, mode, selected_index, filtered_commands, search_input,
     command_output, output_receiver, elapsed, spinner_state, pc, key,
     channel, available, children >>

appVars ==
  << mode, selected_index, filtered_commands, search_input, command_output,
     output_receiver, spinner_state, channel, children >>

----------------------------------------------------------------------------
(* Bounds of the model *)

\* longest filter text typed in the behaviours of SpecKeys
MaxInput == 3
\* longest filter text typed in the behaviours of Spec
MaxTyped == 1
\* number of commands run in one behaviour
MaxRuns == 2
\* the time since last_update is tracked up to this many ms
MaxElapsed == 250

----------------------------------------------------------------------------
(* Option<T> *)

None == << >>

Some(x) == << x >>

IsSome(o) == Len(o) = 1

Unwrap(o) == o[1]

----------------------------------------------------------------------------
(* Strings *)

NL == "\n"

UpperCase ==
  << "A", "B", "C", "D", "E", "F", "G", "H", "I", "J", "K", "L", "M",
     "N", "O", "P", "Q", "R", "S", "T", "U", "V", "W", "X", "Y", "Z" >>

LowerCase ==
  << "a", "b", "c", "d", "e", "f", "g", "h", "i", "j", "k", "l", "m",
     "n", "o", "p", "q", "r", "s", "t", "u", "v", "w", "x", "y", "z" >>

\* char::to_lowercase on the letters of the model
ToLowerChar(c) ==
  IF \E i \in 1..Len(UpperCase) : UpperCase[i] = c
    THEN LowerCase[CHOOSE i \in 1..Len(UpperCase) : UpperCase[i] = c]
    ELSE c

\* str::to_lowercase
to_lowercase(s) == [i \in 1..Len(s) |-> ToLowerChar(s[i])]

\* str::contains: needle occurs in hay as a contiguous substring
contains(hay, needle) ==
  /\ Len(needle) <= Len(hay)
  /\ \E k \in 0..(Len(hay) - Len(needle)) :
       SubSeq(hay, k + 1, k + Len(needle)) = needle

IsWhitespace(c) == c \in {" ", "\t", "\n"}

\* str::split_whitespace: the maximal runs of non-whitespace characters
RECURSIVE SplitFrom(_, _, _)
SplitFrom(s, i, cur) ==
  IF i > Len(s)
    THEN IF cur = << >> THEN << >> ELSE << cur >>
    ELSE IF IsWhitespace(s[i])
      THEN IF cur = << >>
             THEN SplitFrom(s, i + 1, << >>)
             ELSE << cur >> \o SplitFrom(s, i + 1, << >>)
      ELSE SplitFrom(s, i + 1, Append(cur, s[i]))

split_whitespace(s) == SplitFrom(s, 1, << >>)

----------------------------------------------------------------------------
(* The command lists of App::new *)

WindowsCommands ==
  << << "d", "i", "r" >>,
     << "e", "c", "h", "o", " ", "\"", "t", "e", "s", "t", "i", "n", "g", "\"" >>,
     << "i", "p", "c", "o", "n", "f", "i", "g" >>,
     << "s", "y", "s", "t", "e", "m", "i", "n", "f", "o" >>,
     << "w", "h", "o", "a", "m", "i" >>,
     << "t", "a", "s", "k", "l", "i", "s", "t" >> >>

UnixCommands ==
  << << "l", "s" >>,
     << "e", "c", "h", "o", " ", "\"", "t", "e", "s", "t", "i", "n", "g", "\"" >>,
     << "i", "f", "c", "o", "n", "f", "i", "g" >>,
     << "u", "n", "a", "m", "e", " ", "-", "a" >>,
     << "w", "h", "o", "a", "m", "i" >>,
     << "p", "s", " ", "a", "u", "x" >> >>

\* App.commands, fixed by is_windows at construction
commands == IF is_windows THEN WindowsCommands ELSE UnixCommands

\* (0..commands.len()).collect()
AllIndices(cmds) == [i \in 1..Len(cmds) |-> i - 1]

----------------------------------------------------------------------------
(* App::previous, App::next, App::update_filter as functions of the fields *)

\* Iterator::position: 0-based position of the first element equal to x
position(seq, x) ==
  IF \E i \in 1..Len(seq) : seq[i] = x
    THEN Some((CHOOSE i \in 1..Len(seq) :
                 seq[i] = x /\ \A j \in 1..(i - 1) : seq[j] # x) - 1)
    ELSE None

unwrap_or(o, d) == IF IsSome(o) THEN Unwrap(o) ELSE d

\* the selected_index App::previous leaves
previous(sel, filtered) ==
  IF IsSome(sel) /\ filtered # << >>
    THEN LET current_position == unwrap_or(position(filtered, Unwrap(sel)), 0)
         IN  IF current_position > 0
               THEN Some(filtered[(current_position - 1) + 1])
               ELSE sel
    ELSE sel

\* next, wrapping around at the last visible entry
next_wrapping(sel, filtered) ==
  IF IsSome(sel) /\ filtered # << >>
    THEN LET current_position == unwrap_or(position(filtered, Unwrap(sel)), 0)
         IN  Some(filtered[((current_position + 1) % Len(filtered)) + 1])
    ELSE sel

\* the selected_index App::next leaves
next(sel, filtered) ==
  IF IsSome(sel) /\ filtered # << >>
    THEN LET current_position == unwrap_or(position(filtered, Unwrap(sel)), 0)
         IN  IF current_position < Len(filtered) - 1
               THEN Some(filtered[(current_position + 1) + 1])
               ELSE sel
    ELSE sel

\* matches, comparing the characters as typed
matches_case_sensitive(cmd, input) == contains(cmd, input)

\* matches, anchored at the start of the command
matches_prefix(cmd, input) ==
  /\ Len(input) <= Len(cmd)
  /\ SubSeq(to_lowercase(cmd), 1, Len(input)) = to_lowercase(input)

\* matches, with an empty filter text matching nothing
matches_nonempty(cmd, input) ==
  input # << >> /\ contains(to_lowercase(cmd), to_lowercase(input))

\* the filter closure of update_filter
matches(cmd, input) == contains(to_lowercase(cmd), to_lowercase(input))

\* the filtered_commands update_filter builds
filter_commands(cmds, input) ==
  SelectSeq(AllIndices(cmds), LAMBDA i : matches(cmds[i + 1], input))

SeqContains(seq, x) == \E i \in 1..Len(seq) : seq[i] = x

\* reselect, keeping the old selection whatever is visible
reselect_keeping(old_selection, filtered) ==
  IF filtered = << >> THEN None ELSE old_selection

\* reselect, always taking the first visible entry
reselect_first(old_selection, filtered) ==
  IF filtered = << >> THEN None ELSE Some(filtered[1])

\* the selected_index update_filter leaves
reselect(old_selection, filtered) ==
  IF filtered = << >>
    THEN None
    ELSE IF IsSome(old_selection)
      THEN IF SeqContains(filtered, Unwrap(old_selection))
             THEN old_selection
             ELSE Some(filtered[1])
      ELSE Some(filtered[1])

----------------------------------------------------------------------------
(* The environment: keys, time, programs *)

NamedKeys == {"Esc", "Enter", "Up", "Down", "Backspace", "Tab"}

\* the keys pressed in the behaviours of Spec
Keyboard == {"Esc", "Enter", "Up", "Down", "Backspace", "/", "i"}

\* the keys pressed in the behaviours of SpecKeys
KeyboardWide ==
  {"Esc", "Enter", "Up", "Down", "Backspace", "Tab",
   "/", "q", "j", "k", "i", "I", "f", "z"}

\* event::poll(Duration::from_millis(250))
PollWait == 250

\* the time a poll takes when a key arrives, in ms
Delays == {0, PollWait}

\* Duration::from_millis(100) of update_spinner
SpinnerInterval == 100

\* the number of spinner frames
SpinnerFrames == 4

Min(a, b) == IF a <= b THEN a ELSE b

\* d ms pass
Tick(d) == elapsed' = Min(elapsed + d, MaxElapsed)

Echo == << "e", "c", "h", "o" >>

ErrorPrefix == << "E", "r", "r", "o", "r", ":", " " >>

RECURSIVE JoinSpace(_)
JoinSpace(words) ==
  IF words = << >> THEN << >>
  ELSE IF Len(words) = 1 THEN words[1]
  ELSE words[1] \o << " " >> \o JoinSpace(Tail(words))

Ok(line) == << line >>

ReadError == << >>

\* what a program other than echo writes in the behaviours of Spec: the items
\* BufRead::lines yields on each pipe, Ok(line) or a read error
OneLinePrograms ==
  { [out |-> << Ok(<< "a" >>) >>, err |-> << Ok(<< "x" >>) >>] }

\* what the spawned program writes to its two pipes; echo writes its
\* arguments, separated by spaces, as one line
ProgramRuns(program, args, others) ==
  IF program = Echo
    THEN { [out |-> << Ok(JoinSpace(args)) >>, err |-> << >>] }
    ELSE others

\* Invocation, passing no arguments to the program
Invocation_without_args(windows, command) ==
  IF windows
    THEN [program |-> << "c", "m", "d" >>, args |-> << >>]
    ELSE LET parts == split_whitespace(command)
         IN  [program |-> IF parts = << >> THEN << >> ELSE Head(parts),
              args |-> << >>]

\* (program, args) of execute_command
Invocation(windows, command) ==
  IF windows
    THEN [program |-> << "c", "m", "d" >>, args |-> << << "/", "C" >>, command >>]
    ELSE LET parts == split_whitespace(command)
         IN  [program |-> IF parts = << >> THEN << >> ELSE Head(parts),
              args |-> IF parts = << >> THEN << >> ELSE Tail(parts)]

----------------------------------------------------------------------------
(* The methods of App *)

\* App::new
Init ==
  /\ is_windows \in BOOLEAN
  /\ mode = "Normal"
  /\ filtered_commands = AllIndices(commands)
  /\ selected_index = Some(0)
  /\ search_input = << >>
  /\ command_output = << >>
  /\ output_receiver = None
  /\ elapsed = 0
  /\ spinner_state = 0
  /\ pc = "loop"
  /\ key = "none"
  /\ channel = << >>
  /\ available = 0
  /\ children = << >>

\* App::update_filter, after search_input became input
update_filter(input) ==
  LET old_selection == selected_index
  IN  /\ search_input' = input
      /\ filtered_commands' = filter_commands(commands, search_input')
      /\ selected_index' = reselect(old_selection, filtered_commands')

\* execute_command without its command_output.clear()
execute_command_keeping_output(spawn) ==
  IF IsSome(selected_index) /\ IsSome(spawn)
    THEN LET run == Unwrap(spawn)
             id == Len(children) + 1
         IN  /\ children' = Append(children,
                   [stdout |-> run.out, stderr |-> run.err,
                    out_read |-> 0, err_read |-> 0, alive |-> TRUE,
                    stdout_reader |-> "running", stderr_reader |-> "running"])
             /\ output_receiver' = Some(id)
             /\ channel' = << >>
             /\ mode' = "Running"
             /\ UNCHANGED command_output
    ELSE UNCHANGED << children, output_receiver, channel, mode, command_output >>

\* execute_command clearing command_output before it spawns
execute_command_clearing_first(spawn) ==
  IF IsSome(selected_index)
    THEN /\ command_output' = << >>
         /\ IF IsSome(spawn)
              THEN LET run == Unwrap(spawn)
                       id == Len(children) + 1
                   IN  /\ children' = Append(children,
                             [stdout |-> run.out, stderr |-> run.err,
                              out_read |-> 0, err_read |-> 0, alive |-> TRUE,
                              stdout_reader |-> "running", stderr_reader |-> "running"])
                       /\ output_receiver' = Some(id)
                       /\ channel' = << >>
                       /\ mode' = "Running"
              ELSE UNCHANGED << children, output_receiver, channel, mode >>
    ELSE UNCHANGED << children, output_receiver, channel, mode, command_output >>

\* App::execute_command; spawn is None when Command::spawn fails, else what
\* the child writes
execute_command(spawn) ==
  IF IsSome(selected_index) /\ IsSome(spawn)
    THEN LET run == Unwrap(spawn)
             id == Len(children) + 1
         IN  /\ children' = Append(children,
                   [stdout |-> run.out, stderr |-> run.err,
                    out_read |-> 0, err_read |-> 0, alive |-> TRUE,
                    stdout_reader |-> "running", stderr_reader |-> "running"])
             /\ output_receiver' = Some(id)
             /\ channel' = << >>
             /\ mode' = "Running"
             /\ command_output' = << >>
    ELSE UNCHANGED << children, output_receiver, channel, mode, command_output >>

\* the results Command::spawn can have for the selected command
SpawnOutcomes(programs) ==
  IF IsSome(selected_index)
    THEN LET inv == Invocation(is_windows, commands[Unwrap(selected_index) + 1])
         IN  {None} \cup
             (IF Len(children) < MaxRuns
                THEN {Some(run) : run \in ProgramRuns(inv.program, inv.args, programs)}
                ELSE {})
    ELSE {None}

\* update_spinner making up for the intervals that went by
update_spinner_catching_up ==
  IF elapsed >= SpinnerInterval
    THEN /\ spinner_state' = (spinner_state + (elapsed \div SpinnerInterval)) % SpinnerFrames
         /\ elapsed' = 0
    ELSE UNCHANGED << spinner_state, elapsed >>

\* App::update_spinner
update_spinner ==
  IF elapsed >= SpinnerInterval
    THEN /\ spinner_state' = (spinner_state + 1) % SpinnerFrames
         /\ elapsed' = 0
    ELSE UNCHANGED << spinner_state, elapsed >>

----------------------------------------------------------------------------
(* main's loop *)

\* lines 238-243: the head of an iteration
LoopTop ==
  /\ pc = "loop"
  /\ IF mode = "Running"
       THEN /\ update_spinner
            /\ pc' = "drain"
            /\ available' = IF IsSome(output_receiver) THEN Len(channel) ELSE 0
       ELSE /\ pc' = "poll"
            /\ UNCHANGED << spinner_state, elapsed, available >>
  /\ key' = "none"
  /\ UNCHANGED << is_windows, mode, selected_index, filtered_commands, search_input,
                  command_output, output_receiver, channel, children >>

\* DrainStep with `if let` for `while let`: it returns after the first line
DrainStep_single ==
  /\ pc = "drain"
  /\ IF IsSome(output_receiver) /\ channel # << >>
       THEN /\ command_output' = command_output \o Head(channel) \o << NL >>
            /\ channel' = Tail(channel)
       ELSE UNCHANGED << command_output, channel >>
  /\ pc' = "poll"
  /\ available' = 0
  /\ UNCHANGED << is_windows, mode, selected_index, filtered_commands, search_input,
                  output_receiver, elapsed, spinner_state, key, children >>

\* DrainStep receiving the line sent last
DrainStep_newest_first ==
  /\ pc = "drain"
  /\ IF IsSome(output_receiver) /\ channel # << >>
       THEN /\ command_output' = command_output \o channel[Len(channel)] \o << NL >>
            /\ channel' = SubSeq(channel, 1, Len(channel) - 1)
            /\ available' = IF available > 0 THEN available - 1 ELSE 0
            /\ pc' = "drain"
       ELSE /\ pc' = "poll"
            /\ available' = 0
            /\ UNCHANGED << command_output, channel >>
  /\ UNCHANGED << is_windows, mode, selected_index, filtered_commands, search_input,
                  output_receiver, elapsed, spinner_state, key, children >>

\* App::check_command_output: one receiver.try_recv() of its loop
DrainStep ==
  /\ pc = "drain"
  /\ IF IsSome(output_receiver) /\ channel # << >>
       THEN /\ command_output' = command_output \o Head(channel) \o << NL >>
            /\ channel' = Tail(channel)
            /\ available' = IF available > 0 THEN available - 1 ELSE 0
            /\ pc' = "drain"
       ELSE /\ pc' = "poll"
            /\ available' = 0
            /\ UNCHANGED << command_output, channel >>
  /\ UNCHANGED << is_windows, mode, selected_index, filtered_commands, search_input,
                  output_receiver, elapsed, spinner_state, key, children >>

\* event::poll returns false after its 250 ms
PollTimeout ==
  /\ pc = "poll"
  /\ Tick(PollWait)
  /\ pc' = "loop"
  /\ UNCHANGED << is_windows, key, available >>
  /\ UNCHANGED appVars

\* what every key handler shares: the key is read d ms into the poll
KeyRead(k, d) ==
  /\ pc = "poll"
  /\ key' = k
  /\ Tick(d)
  /\ UNCHANGED << is_windows, available >>

\* NormalQuit leaving the loop whatever the filter text
NormalQuit_always(k, d) ==
  /\ mode = "Normal"
  /\ k \in {"q", "Esc"}
  /\ KeyRead(k, d)
  /\ pc' = "exited"
  /\ UNCHANGED << search_input, filtered_commands, selected_index >>
  /\ UNCHANGED << mode, command_output, output_receiver, spinner_state, channel, children >>

NormalQuit(k, d) ==
  /\ mode = "Normal"
  /\ k \in {"q", "Esc"}
  /\ KeyRead(k, d)
  /\ IF search_input # << >>
       THEN update_filter(<< >>) /\ pc' = "loop"
       ELSE pc' = "exited"
            /\ UNCHANGED << search_input, filtered_commands, selected_index >>
  /\ UNCHANGED << mode, command_output, output_receiver, spinner_state, channel, children >>

NormalNext(k, d) ==
  /\ mode = "Normal"
  /\ k \in {"j", "Down"}
  /\ KeyRead(k, d)
  /\ selected_index' = next(selected_index, filtered_commands)
  /\ pc' = "loop"
  /\ UNCHANGED << mode, filtered_commands, search_input, command_output,
                  output_receiver, spinner_state, channel, children >>

NormalPrevious(k, d) ==
  /\ mode = "Normal"
  /\ k \in {"k", "Up"}
  /\ KeyRead(k, d)
  /\ selected_index' = previous(selected_index, filtered_commands)
  /\ pc' = "loop"
  /\ UNCHANGED << mode, filtered_commands, search_input, command_output,
                  output_receiver, spinner_state, channel, children >>

NormalSearch(k, d) ==
  /\ mode = "Normal"
  /\ k = "/"
  /\ KeyRead(k, d)
  /\ mode' = "Searching"
  /\ pc' = "loop"
  /\ UNCHANGED << selected_index, filtered_commands, search_input, command_output,
                  output_receiver, spinner_state, channel, children >>

NormalEnter(k, d, programs) ==
  /\ mode = "Normal"
  /\ k = "Enter"
  /\ KeyRead(k, d)
  /\ \E spawn \in SpawnOutcomes(programs) : execute_command(spawn)
  /\ pc' = "loop"
  /\ UNCHANGED << selected_index, filtered_commands, search_input, spinner_state >>

NormalOther(k, d) ==
  /\ mode = "Normal"
  /\ k \notin {"q", "Esc", "j", "Down", "k", "Up", "/", "Enter"}
  /\ KeyRead(k, d)
  /\ pc' = "loop"
  /\ UNCHANGED appVars

\* SearchingEsc leaving the filter text as it is
SearchingEsc_keeping_text(k, d) ==
  /\ mode = "Searching"
  /\ k = "Esc"
  /\ KeyRead(k, d)
  /\ mode' = "Normal"
  /\ pc' = "loop"
  /\ UNCHANGED << search_input, filtered_commands, selected_index >>
  /\ UNCHANGED << command_output, output_receiver, spinner_state, channel, children >>

SearchingEsc(k, d) ==
  /\ mode = "Searching"
  /\ k = "Esc"
  /\ KeyRead(k, d)
  /\ mode' = "Normal"
  /\ search_input' = << >>
  /\ filtered_commands' = filter_commands(commands, search_input')
  /\ LET selected == reselect(selected_index, filtered_commands')
     IN  selected_index' =
           IF ~IsSome(selected) /\ filtered_commands' # << >>
             THEN Some(filtered_commands'[1])
             ELSE selected
  /\ pc' = "loop"
  /\ UNCHANGED << command_output, output_receiver, spinner_state, channel, children >>

SearchingEnter(k, d) ==
  /\ mode = "Searching"
  /\ k = "Enter"
  /\ KeyRead(k, d)
  /\ mode' = "Normal"
  /\ pc' = "loop"
  /\ UNCHANGED << selected_index, filtered_commands, search_input, command_output,
                  output_receiver, spinner_state, channel, children >>

SearchingChar(k, d, maxLen) ==
  /\ mode = "Searching"
  /\ k \notin NamedKeys
  /\ Len(search_input) < maxLen
  /\ KeyRead(k, d)
  /\ update_filter(Append(search_input, k))
  /\ pc' = "loop"
  /\ UNCHANGED << mode, command_output, output_receiver, spinner_state, channel, children >>

\* String::pop
pop(s) == IF s = << >> THEN s ELSE SubSeq(s, 1, Len(s) - 1)

SearchingBackspace(k, d) ==
  /\ mode = "Searching"
  /\ k = "Backspace"
  /\ KeyRead(k, d)
  /\ update_filter(pop(search_input))
  /\ pc' = "loop"
  /\ UNCHANGED << mode, command_output, output_receiver, spinner_state, channel, children >>

SearchingOther(k, d) ==
  /\ mode = "Searching"
  /\ k \in NamedKeys \ {"Esc", "Enter", "Backspace"}
  /\ KeyRead(k, d)
  /\ pc' = "loop"
  /\ UNCHANGED appVars

\* RunningEsc, also ending the child of the run
RunningEsc_killing(k, d) ==
  /\ mode = "Running"
  /\ k = "Esc"
  /\ KeyRead(k, d)
  /\ mode' = "Normal"
  /\ output_receiver' = None
  /\ channel' = << >>
  /\ pc' = "loop"
  /\ children' = [children EXCEPT ![Len(children)].alive = FALSE]
  /\ UNCHANGED << selected_index, filtered_commands, search_input, command_output,
                  spinner_state >>

RunningEsc(k, d) ==
  /\ mode = "Running"
  /\ k = "Esc"
  /\ KeyRead(k, d)
  /\ mode' = "Normal"
  /\ output_receiver' = None
  /\ channel' = << >>
  /\ pc' = "loop"
  /\ UNCHANGED << selected_index, filtered_commands, search_input, command_output,
                  spinner_state, children >>

\* RunningOther with the navigation keys of Normal mode
RunningOther_navigating(k, d) ==
  /\ mode = "Running"
  /\ k # "Esc"
  /\ KeyRead(k, d)
  /\ pc' = "loop"
  /\ selected_index' =
       IF k \in {"j", "Down"} THEN next(selected_index, filtered_commands)
       ELSE IF k \in {"k", "Up"} THEN previous(selected_index, filtered_commands)
       ELSE selected_index
  /\ UNCHANGED << mode, filtered_commands, search_input, command_output,
                  output_receiver, spinner_state, channel, children >>

\* RunningOther with the confirm key starting another run
RunningOther_respawning(k, d) ==
  /\ mode = "Running"
  /\ k # "Esc"
  /\ KeyRead(k, d)
  /\ pc' = "loop"
  /\ IF k = "Enter" /\ Len(children) < MaxRuns
       THEN execute_command(Some([out |-> << >>, err |-> << >>]))
       ELSE UNCHANGED << children, output_receiver, channel, mode, command_output >>
  /\ UNCHANGED << selected_index, filtered_commands, search_input, spinner_state >>

RunningOther(k, d) ==
  /\ mode = "Running"
  /\ k # "Esc"
  /\ KeyRead(k, d)
  /\ pc' = "loop"
  /\ UNCHANGED appVars

\* lines 250-270: the keys of Normal mode
NormalKey(k, d, programs) ==
  \/ NormalQuit(k, d)
  \/ NormalNext(k, d)
  \/ NormalPrevious(k, d)
  \/ NormalSearch(k, d)
  \/ NormalEnter(k, d, programs)
  \/ NormalOther(k, d)

\* lines 271-294: the keys of Searching mode
SearchingKey(k, d, maxLen) ==
  \/ SearchingEsc(k, d)
  \/ SearchingEnter(k, d)
  \/ SearchingChar(k, d, maxLen)
  \/ SearchingBackspace(k, d)
  \/ SearchingOther(k, d)

\* lines 295-301: the keys of Running mode
RunningKey(k, d) ==
  \/ RunningEsc(k, d)
  \/ RunningOther(k, d)

----------------------------------------------------------------------------
(* The child processes and the reader threads of execute_command *)

\* send into one channel made in App::new and shared by every run
send_shared(r, line) ==
  channel' = IF IsSome(output_receiver) THEN Append(channel, line) ELSE channel

\* tx.send(line): queued if the receiver of the run's channel is still held
send(r, line) ==
  channel' = IF output_receiver = Some(r) THEN Append(channel, line) ELSE channel

\* StdoutReader with send(line).unwrap(): the thread ends at the first send
\* that finds the receiver dropped
StdoutReader_unwrapping(r) ==
  /\ r <= Len(children)
  /\ children[r].stdout_reader = "running"
  /\ IF children[r].out_read < Len(children[r].stdout)
       THEN LET item == children[r].stdout[children[r].out_read + 1]
            IN  /\ IF item # ReadError
                     THEN send(r, item[1])
                     ELSE UNCHANGED channel
                /\ children' =
                     IF item # ReadError /\ output_receiver # Some(r)
                       THEN [children EXCEPT ![r].out_read = @ + 1,
                                             ![r].stdout_reader = "done"]
                       ELSE [children EXCEPT ![r].out_read = @ + 1]
       ELSE /\ ~children[r].alive
            /\ children' = [children EXCEPT ![r].stdout_reader = "done"]
            /\ UNCHANGED channel
  /\ UNCHANGED << is_windows, mode, selected_index, filtered_commands, search_input,
                  command_output, output_receiver, elapsed, spinner_state, pc, key,
                  available >>

\* lines 174-181: the stdout reader takes the next item of its pipe
StdoutReader(r) ==
  /\ r <= Len(children)
  /\ children[r].stdout_reader = "running"
  /\ IF children[r].out_read < Len(children[r].stdout)
       THEN LET item == children[r].stdout[children[r].out_read + 1]
            IN  /\ IF item # ReadError
                     THEN send(r, item[1])
                     ELSE UNCHANGED channel
                /\ children' = [children EXCEPT ![r].out_read = @ + 1]
       ELSE /\ ~children[r].alive
            /\ children' = [children EXCEPT ![r].stdout_reader = "done"]
            /\ UNCHANGED channel
  /\ UNCHANGED << is_windows, mode, selected_index, filtered_commands, search_input,
                  command_output, output_receiver, elapsed, spinner_state, pc, key,
                  available >>

\* StderrReader forwarding the line as it read it
StderrReader_unprefixed(r) ==
  /\ r <= Len(children)
  /\ children[r].stderr_reader = "running"
  /\ IF children[r].err_read < Len(children[r].stderr)
       THEN LET item == children[r].stderr[children[r].err_read + 1]
            IN  /\ IF item # ReadError
                     THEN send(r, item[1])
                     ELSE UNCHANGED channel
                /\ children' = [children EXCEPT ![r].err_read = @ + 1]
       ELSE /\ ~children[r].alive
            /\ children' = [children EXCEPT ![r].stderr_reader = "done"]
            /\ UNCHANGED channel
  /\ UNCHANGED << is_windows, mode, selected_index, filtered_commands, search_input,
                  command_output, output_receiver, elapsed, spinner_state, pc, key,
                  available >>

\* lines 183-190: the stderr reader takes the next item of its pipe
StderrReader(r) ==
  /\ r <= Len(children)
  /\ children[r].stderr_reader = "running"
  /\ IF children[r].err_read < Len(children[r].stderr)
       THEN LET item == children[r].stderr[children[r].err_read + 1]
            IN  /\ IF item # ReadError
                     THEN send(r, ErrorPrefix \o item[1])
                     ELSE UNCHANGED channel
                /\ children' = [children EXCEPT ![r].err_read = @ + 1]
       ELSE /\ ~children[r].alive
            /\ children' = [children EXCEPT ![r].stderr_reader = "done"]
            /\ UNCHANGED channel
  /\ UNCHANGED << is_windows, mode, selected_index, filtered_commands, search_input,
                  command_output, output_receiver, elapsed, spinner_state, pc, key,
                  available >>

\* the child process ends, closing its ends of the pipes
ChildExit(r) ==
  /\ r <= Len(children)
  /\ children[r].alive
  /\ children' = [children EXCEPT ![r].alive = FALSE]
  /\ UNCHANGED << is_windows, mode, selected_index, filtered_commands, search_input,
                  command_output, output_receiver, elapsed, spinner_state, pc, key,
                  channel, available >>

Background ==
  \E r \in 1..Len(children) :
    \/ StdoutReader(r)
    \/ StderrReader(r)
    \/ ChildExit(r)

----------------------------------------------------------------------------
(* Specifications *)

\* The App and its children when every key arrives at once: last_update and
\* spinner_state, which only update_spinner and ui read, stay as App::new set
\* them.
Next ==
  \/ LoopTop
  \/ DrainStep
  \/ \E k \in Keyboard :
       \/ NormalKey(k, 0, OneLinePrograms)
       \/ SearchingKey(k, 0, MaxTyped)
       \/ RunningKey(k, 0)
  \/ Background

Spec == Init /\ [][Next]_vars

\* The keyboard alone: more keys, longer filter texts, every key arriving at
\* once, and a host on which every spawn fails (no program writes anything).
NextKeys ==
  \/ LoopTop
  \/ \E k \in KeyboardWide :
       \/ NormalKey(k, 0, {})
       \/ SearchingKey(k, 0, MaxInput)

SpecKeys == Init /\ [][NextKeys]_vars

\* App::new on a host that is not Windows
InitUnix == Init /\ ~is_windows

\* the keys pressed in the behaviours of SpecEcho
KeyboardRun == {"Esc", "Enter", "Down"}

\* A host that is not Windows and on which echo is the only program that can
\* be spawned, with time passing; no filter text is typed.
NextEcho ==
  \/ LoopTop
  \/ DrainStep
  \/ PollTimeout
  \/ \E k \in KeyboardRun, d \in Delays :
       \/ NormalQuit(k, d)
       \/ NormalNext(k, d)
       \/ NormalEnter(k, d, {})
       \/ RunningKey(k, d)
  \/ Background

\* event::poll returns, with a key or after its 250 ms
PollReturns ==
  \/ PollTimeout
  \/ \E k \in KeyboardRun, d \in Delays :
       \/ NormalQuit(k, d)
       \/ NormalNext(k, d)
       \/ NormalEnter(k, d, {})
       \/ RunningKey(k, d)

\* main's loop keeps iterating until it breaks, the operating system schedules
\* every reader thread, and echo ends once it has written its line
FairEcho ==
  /\ WF_vars(LoopTop)
  /\ WF_vars(DrainStep)
  /\ WF_vars(PollReturns)
  /\ \A r \in 1..MaxRuns :
       /\ WF_vars(StdoutReader(r))
       /\ WF_vars(StderrReader(r))
       /\ WF_vars(ChildExit(r))

SpecEcho == InitUnix /\ [][NextEcho]_vars /\ FairEcho

\* what a program writes in the behaviours of SpecStreams: two lines on
\* stdout and one on stderr, or a line after one that cannot be read (not UTF-8)
TwoStreamPrograms ==
  { [out |-> << Ok(<< "a" >>), Ok(<< "b" >>) >>,
     err |-> << Ok(<< "x" >>) >>],
    [out |-> << ReadError, Ok(<< "c" >>) >>, err |-> << >>] }

\* the keys pressed in the behaviours of SpecStreams
KeyboardStreams == {"Esc", "Enter"}

\* A host that is not Windows on which the first command of the list is run,
\* cancelled and run again, as a program that writes several lines, with time
\* passing.
NextStreams ==
  \/ LoopTop
  \/ DrainStep
  \/ PollTimeout
  \/ \E k \in KeyboardStreams :
       \/ NormalQuit(k, 0)
       \/ NormalEnter(k, 0, TwoStreamPrograms)
       \/ RunningKey(k, 0)
  \/ Background

\* event::poll returns, with a key or after its 250 ms
PollReturnsStreams ==
  \/ PollTimeout
  \/ \E k \in KeyboardStreams :
       \/ NormalQuit(k, 0)
       \/ NormalEnter(k, 0, TwoStreamPrograms)
       \/ RunningKey(k, 0)

\* main's loop keeps iterating until it breaks, the operating system schedules
\* every reader thread, and every program ends
FairStreams ==
  /\ WF_vars(LoopTop)
  /\ WF_vars(DrainStep)
  /\ WF_vars(PollReturnsStreams)
  /\ \A r \in 1..MaxRuns :
       /\ WF_vars(StdoutReader(r))
       /\ WF_vars(StderrReader(r))
       /\ WF_vars(ChildExit(r))

SpecStreams == InitUnix /\ [][NextStreams]_vars /\ FairStreams

\* The runs of SpecStreams when every key arrives at once.
NextRuns ==
  \/ LoopTop
  \/ DrainStep
  \/ \E k \in KeyboardStreams :
       \/ NormalQuit(k, 0)
       \/ NormalEnter(k, 0, TwoStreamPrograms)
       \/ RunningKey(k, 0)
  \/ Background

SpecRuns == InitUnix /\ [][NextRuns]_vars

\* a program that writes nothing
SilentPrograms == { [out |-> << >>, err |-> << >>] }

\* the time a poll takes when a key arrives, in the behaviours of SpecSpinner
DelaysFine == {0, 50, PollWait}

\* A host that is not Windows on which the first command of the list is run
\* and cancelled while the clock advances in steps of 50 ms.
NextSpinner ==
  \/ LoopTop
  \/ DrainStep
  \/ PollTimeout
  \/ \E k \in KeyboardStreams, d \in DelaysFine :
       \/ NormalQuit(k, d)
       \/ NormalEnter(k, d, SilentPrograms)
       \/ RunningKey(k, d)
  \/ Background

SpecSpinner == InitUnix /\ [][NextSpinner]_vars

\* the keys pressed in the behaviours of SpecModes
KeyboardModes == Keyboard \cup {"q"}

\* The three modes under both quit keys: filter texts of one character, and
\* programs other than echo that write nothing.
NextModes ==
  \/ LoopTop
  \/ DrainStep
  \/ \E k \in KeyboardModes :
       \/ NormalKey(k, 0, SilentPrograms)
       \/ SearchingKey(k, 0, MaxTyped)
       \/ RunningKey(k, 0)
  \/ Background

SpecModes == Init /\ [][NextModes]_vars

----------------------------------------------------------------------------
(* Properties *)

\* a key was read and handled in this step
KeyHandled == pc = "poll" /\ key' # "none"

\* a printable character key
IsCharKey(k) == k \notin NamedKeys \cup {"none"}

\* C1: in every reachable state Selection is none exactly when FilterIndex is
\* empty, and otherwise Selection is an element of FilterIndex.
C1_SelectionInFilterIndex ==
  /\ (selected_index = None) <=> (filtered_commands = << >>)
  /\ IsSome(selected_index) => SeqContains(filtered_commands, Unwrap(selected_index))

\* a filter text without matches was typed after a command was run and cancelled
C1_Witness ==
  /\ mode = "Searching"
  /\ Len(children) = 1
  /\ search_input = << "/" >>
  /\ filtered_commands = << >>
  /\ selected_index = None

\* a and b are the same character up to the case of a letter
SameLetter(a, b) ==
  \/ a = b
  \/ \E i \in 1..Len(UpperCase) :
       \/ a = UpperCase[i] /\ b = LowerCase[i]
       \/ a = LowerCase[i] /\ b = UpperCase[i]

\* text occurs in cmd as a case-insensitive substring
OccursIgnoringCase(text, cmd) ==
  \E off \in 0..Len(cmd) :
    /\ off + Len(text) <= Len(cmd)
    /\ \A j \in 1..Len(text) : SameLetter(cmd[off + j], text[j])

\* C2: FilterIndex holds exactly the indices of the commands that contain the
\* filter text as a case-insensitive substring, each once, in command-list order.
C2_FilterIndexExact ==
  /\ \A i \in 0..(Len(commands) - 1) :
       SeqContains(filtered_commands, i) <=> OccursIgnoringCase(search_input, commands[i + 1])
  /\ \A j \in 1..Len(filtered_commands) : \A k \in 1..Len(filtered_commands) :
       j < k => filtered_commands[j] < filtered_commands[k]

\* an upper-case filter text made visible the one command that holds it in lower case
C2_Witness ==
  /\ ~is_windows
  /\ mode = "Searching"
  /\ key = "f"
  /\ search_input = << "I", "f" >>
  /\ filtered_commands = << 2 >>

\* C3 as stated: on the non-Windows list the filter text "i" leaves exactly
\* ifconfig visible, and "zzz" leaves nothing visible and no Selection.
C3_Original ==
  /\ (~is_windows /\ search_input = << "i" >>) => filtered_commands = << 2 >>
  /\ (~is_windows /\ search_input = << "z", "z", "z" >>) =>
       (filtered_commands = << >> /\ selected_index = None)

\* C3, amended: on the non-Windows list the filter text "i" leaves echo "testing",
\* ifconfig and whoami visible (indices 1, 2, 4), and "zzz" leaves nothing
\* visible and no Selection.
C3_FilterScenario ==
  /\ (~is_windows /\ search_input = << "i" >>) => filtered_commands = << 1, 2, 4 >>
  /\ (~is_windows /\ search_input = << "z", "z", "z" >>) =>
       (filtered_commands = << >> /\ selected_index = None)

\* "i" was typed as the whole filter text on the non-Windows list
C3_Witness ==
  /\ ~is_windows
  /\ mode = "Searching"
  /\ key = "i"
  /\ search_input = << "i" >>
  /\ filtered_commands = << 1, 2, 4 >>

\* the step ran update_filter: a character or erase key in Searching, or a
\* clear of a non-empty filter text (Esc in Searching, q or Esc in Normal)
RecomputeStep ==
  /\ KeyHandled
  /\ \/ mode = "Searching" /\ (IsCharKey(key') \/ key' \in {"Backspace", "Esc"})
     \/ mode = "Normal" /\ key' \in {"q", "Esc"} /\ search_input # << >>

\* C4: after every recompute of visibility Selection is none if nothing is
\* visible, else the previous Selection if it is still visible, else the first
\* visible entry.
C4_SelectionPolicy ==
  [][RecomputeStep =>
       selected_index' =
         IF filtered_commands' = << >> THEN None
         ELSE IF IsSome(selected_index)
                 /\ SeqContains(filtered_commands', Unwrap(selected_index))
           THEN selected_index
           ELSE Some(filtered_commands'[1])]_vars

\* a recompute kept a Selection that is visible but not the first visible entry
C4_Witness ==
  /\ ~is_windows
  /\ mode = "Searching"
  /\ pc = "loop"
  /\ key = "i"
  /\ search_input = << "i" >>
  /\ selected_index = Some(4)

\* the 1-based place of the Selection in FilterIndex
Place(sel, filtered) ==
  CHOOSE p \in 1..Len(filtered) : filtered[p] = Unwrap(sel)

\* C5: a navigation key in Normal mode moves Selection by exactly one place in
\* FilterIndex, stays put at either end and when nothing is visible, and changes
\* neither FilterIndex, filter text nor mode; up then down from any entry but
\* the first returns to the original Selection.
C5_Navigation ==
  /\ [](\A p \in 2..Len(filtered_commands) :
          next(previous(Some(filtered_commands[p]), filtered_commands),
               filtered_commands) = Some(filtered_commands[p]))
  /\ [][(KeyHandled /\ mode = "Normal" /\ key' \in {"k", "Up", "j", "Down"}) =>
          /\ UNCHANGED << filtered_commands, search_input, mode >>
          /\ IF filtered_commands = << >>
               THEN selected_index' = selected_index
               ELSE LET p == Place(selected_index, filtered_commands)
                        q == IF key' \in {"k", "Up"}
                               THEN (IF p = 1 THEN p ELSE p - 1)
                               ELSE (IF p = Len(filtered_commands) THEN p ELSE p + 1)
                    IN  selected_index' = Some(filtered_commands[q])]_vars

\* the down key was pressed at the last visible entry of a filtered list
C5_Witness ==
  /\ ~is_windows
  /\ mode = "Normal"
  /\ pc = "loop"
  /\ key = "Down"
  /\ filtered_commands = << 1, 2, 4 >>
  /\ selected_index = Some(4)

\* C6: every step that empties a non-empty filter text (Esc in Searching, q or
\* Esc in Normal, erasing the last character) leaves the full command list
\* visible in its original order and some Selection.
C6_ClearResets ==
  [][(KeyHandled /\ search_input # << >> /\ search_input' = << >>) =>
       /\ filtered_commands' = AllIndices(commands)
       /\ IsSome(selected_index')]_vars

\* q was pressed in Normal mode with a filter text that matched nothing: the
\* application went on, with the filter cleared
C6_Witness ==
  /\ mode = "Normal"
  /\ pc = "loop"
  /\ key = "q"
  /\ search_input = << >>
  /\ filtered_commands = AllIndices(commands)
  /\ selected_index = Some(0)

\* the lines of a text in which every line ends with a line break
RECURSIVE LinesFrom(_, _, _)
LinesFrom(text, i, cur) ==
  IF i > Len(text)
    THEN IF cur = << >> THEN << >> ELSE << cur >>
    ELSE IF text[i] = NL
      THEN << cur >> \o LinesFrom(text, i + 1, << >>)
      ELSE LinesFrom(text, i + 1, Append(cur, text[i]))

Lines(text) == LinesFrom(text, 1, << >>)

\* the lines among the first n items of a pipe, read errors left out
RECURSIVE LinesRead(_, _)
LinesRead(items, n) ==
  IF n = 0 THEN << >>
  ELSE LinesRead(items, n - 1) \o
       (IF items[n] = ReadError THEN << >> ELSE << items[n][1] >>)

RECURSIVE Prefixed(_)
Prefixed(lines) ==
  IF lines = << >> THEN << >>
  ELSE << ErrorPrefix \o Head(lines) >> \o Prefixed(Tail(lines))

\* seq interleaves all of a with all of b, each in its order
RECURSIVE IsMerge(_, _, _)
IsMerge(seq, a, b) ==
  IF seq = << >>
    THEN a = << >> /\ b = << >>
    ELSE \/ a # << >> /\ Head(a) = Head(seq) /\ IsMerge(Tail(seq), Tail(a), b)
         \/ b # << >> /\ Head(b) = Head(seq) /\ IsMerge(Tail(seq), a, Tail(b))

\* the child of the latest run
Current == children[Len(children)]

\* C7: a child is spawned only by the confirm key in Normal mode with a
\* Selection; that step moves Mode to Running and leaves OutputBuffer empty;
\* and while Mode is Running, OutputBuffer and the queue hold only lines that
\* the readers of the current run took from its child, nothing of an earlier run.
C7_RunStartsClean ==
  /\ [][Len(children') > Len(children) =>
          /\ KeyHandled /\ mode = "Normal" /\ key' = "Enter"
          /\ IsSome(selected_index)
          /\ mode' = "Running"
          /\ command_output' = << >>]_vars
  /\ [](mode = "Running" =>
          IsMerge(Lines(command_output) \o channel,
                  LinesRead(Current.stdout, Current.out_read),
                  Prefixed(LinesRead(Current.stderr, Current.err_read))))

\* a second run has just started, after the first run's output was shown
C7_Witness ==
  /\ mode = "Running"
  /\ pc = "loop"
  /\ key = "Enter"
  /\ Len(children) = 2
  /\ children[1].out_read = 1
  /\ children[1].err_read = 0
  /\ command_output = << >>

\* C9: the cancel key in Running mode moves Mode to Normal and drops the
\* receiver, leaving every child and reader as it was; and while no receiver is
\* held, OutputBuffer changes only when the next run starts.
C9_CancelDetaches ==
  /\ [][(KeyHandled /\ mode = "Running" /\ key' = "Esc") =>
          /\ mode' = "Normal"
          /\ output_receiver' = None
          /\ children' = children]_vars
  /\ [][(output_receiver = None /\ Len(children') = Len(children)) =>
          command_output' = command_output]_vars
  /\ [](mode # "Running" => output_receiver = None)

\* after a cancel the child is still running and its stdout reader has taken a
\* line that never reached OutputBuffer
C9_Witness ==
  /\ mode = "Normal"
  /\ output_receiver = None
  /\ Len(children) = 1
  /\ children[1].alive
  /\ children[1].out_read = 1
  /\ children[1].stdout_reader = "running"
  /\ command_output = << >>

\* C10: when the confirm key is pressed in Normal mode and no child is spawned
\* (no Selection, or the spawn fails), Mode stays Normal, OutputBuffer, the
\* receiver, the queue, filter text, FilterIndex and Selection are unchanged,
\* and main's loop goes on.
C10_FailedRunChangesNothing ==
  [][(KeyHandled /\ mode = "Normal" /\ key' = "Enter"
        /\ (selected_index = None \/ Len(children') = Len(children))) =>
       /\ mode' = "Normal"
       /\ pc' = "loop"
       /\ UNCHANGED << command_output, output_receiver, channel, children,
                       search_input, filtered_commands, selected_index >>]_vars

\* a spawn failed with a Selection present while the output of an earlier run
\* is shown
C10_Witness ==
  /\ mode = "Normal"
  /\ pc = "loop"
  /\ key = "Enter"
  /\ IsSome(selected_index)
  /\ Len(children) = 1
  /\ command_output # << >>

\* the confirm key was pressed with no Selection
C10_WitnessNoSelection ==
  /\ mode = "Normal"
  /\ pc = "loop"
  /\ key = "Enter"
  /\ selected_index = None

\* the command echo "testing" is running on a host that is not Windows
EchoRunning ==
  /\ ~is_windows
  /\ mode = "Running"
  /\ selected_index = Some(1)

TestingLine == << "t", "e", "s", "t", "i", "n", "g", NL >>

QuotedTestingLine == << "\"", "t", "e", "s", "t", "i", "n", "g", "\"", NL >>

\* C8 as stated: whatever OutputBuffer holds while echo "testing" runs is
\* exactly the one line testing.
C8_Original ==
  (EchoRunning /\ command_output # << >>) => command_output = TestingLine

\* C8, amended: on a host that is not Windows, while echo "testing" runs
\* OutputBuffer is empty or exactly the one line "testing" with its quotation
\* marks (the command text is split on whitespace and the quotes reach echo as
\* part of its argument); unless the cancel key is pressed OutputBuffer
\* eventually holds that line; and Mode leaves Running only by the cancel key.
C8_EchoRun ==
  /\ [](EchoRunning => command_output \in {<< >>, QuotedTestingLine})
  /\ (EchoRunning ~> (command_output = QuotedTestingLine \/ mode # "Running"))
  /\ [][(mode = "Running" /\ mode' # "Running") =>
          (KeyHandled /\ key' = "Esc" /\ mode' = "Normal")]_vars

\* echo has ended, both readers are done, its line is shown, and Mode is
\* still Running
C8_Witness ==
  /\ EchoRunning
  /\ pc = "poll"
  /\ command_output = QuotedTestingLine
  /\ ~Current.alive
  /\ Current.stdout_reader = "done"
  /\ Current.stderr_reader = "done"

\* check_command_output receives a line in this step
Receives == pc = "drain" /\ command_output' # command_output

\* check_command_output returns in this step
Returns == pc = "drain" /\ pc' = "poll"

\* C11 as stated: a call of drain_output consumes exactly the lines that were
\* in the queue when it was called.
C11_Original == [][Receives => available > 0]_vars

\* C11, amended: drain_output never blocks (while it runs its next step can
\* always be taken); each line it receives is the head of the queue, appended
\* to OutputBuffer with a line break; it returns only when it finds the queue
\* empty, so it has consumed every line that was queued when it was called and
\* any line a reader sent while it was running; and when it finds the queue
\* empty, whether or not the readers have finished, it returns leaving
\* OutputBuffer unchanged.
C11_DrainNeverBlocks ==
  /\ [](pc = "drain" => ENABLED DrainStep)
  /\ [][Receives =>
          /\ channel # << >>
          /\ command_output' = command_output \o Head(channel) \o << NL >>
          /\ channel' = Tail(channel)]_vars
  /\ [][Returns =>
          /\ channel = << >>
          /\ available = 0
          /\ command_output' = command_output]_vars
  /\ [][(pc = "drain" /\ channel = << >>) =>
          command_output' = command_output]_vars

\* check_command_output has received every line that was queued when it was
\* called and finds a line that a reader sent since, after the child ended
C11_Witness ==
  /\ pc = "drain"
  /\ mode = "Running"
  /\ available = 0
  /\ channel # << >>
  /\ command_output # << >>
  /\ ~Current.alive

\* the lines the pipe yields, read errors left out
OkLines(items) == LinesRead(items, Len(items))

\* the elements of a sequence
Range(seq) == {seq[i] : i \in 1..Len(seq)}

\* how many Ok lines are among the first n items of a pipe
OkCount(items, n) == Len(LinesRead(items, n))

\* C12: while a run is shown, every line of OutputBuffer (and of the queue) is a
\* line of the child's standard output as it was read, or a line of its
\* standard error with "Error: " put in front; a reader forwards the line it
\* has just read, once; drain_output appends the received line and one line
\* break; and OutputBuffer and the queue together hold as many lines as the
\* readers have read, none twice and none lost.
C12_LinesForwardedOnce ==
  /\ [](mode = "Running" =>
          /\ Range(Lines(command_output) \o channel) \subseteq
                Range(OkLines(Current.stdout)) \cup
                Range(Prefixed(OkLines(Current.stderr)))
          /\ Len(Lines(command_output)) + Len(channel) =
                OkCount(Current.stdout, Current.out_read) +
                OkCount(Current.stderr, Current.err_read)
          /\ (command_output # << >> => command_output[Len(command_output)] = NL))
  /\ [][(mode = "Running" /\ Len(channel') > Len(channel)) =>
          \/ /\ Current.out_read < Len(Current.stdout)
             /\ Current'.out_read = Current.out_read + 1
             /\ channel' = Append(channel, Current.stdout[Current.out_read + 1][1])
          \/ /\ Current.err_read < Len(Current.stderr)
             /\ Current'.err_read = Current.err_read + 1
             /\ channel' = Append(channel,
                   ErrorPrefix \o Current.stderr[Current.err_read + 1][1])]_vars
  /\ [][Receives =>
          /\ command_output' = command_output \o Head(channel) \o << NL >>
          /\ Len(Lines(command_output')) = Len(Lines(command_output)) + 1]_vars

\* the run's three lines are shown, the standard error line between the two
\* standard output lines
C12_Witness ==
  /\ mode = "Running"
  /\ channel = << >>
  /\ Lines(command_output) =
        << << "a" >>, ErrorPrefix \o << "x" >>, << "b" >> >>

\* main calls tick_spinner in this step
Ticks == pc = "loop" /\ mode = "Running" /\ pc' = "drain"

\* C13: SpinnerState is always in 0..3; it changes only in a tick_spinner call,
\* made while Mode is Running, with at least 100 ms since the last advance, and
\* then by exactly one (mod 4) whatever the time that went by, the interval
\* starting anew; a call made within 100 ms leaves SpinnerState and the time
\* of the last advance as they were.
C13_SpinnerTick ==
  /\ [](spinner_state \in 0..3)
  /\ [][spinner_state' # spinner_state =>
          /\ Ticks
          /\ elapsed >= 100
          /\ spinner_state' = (spinner_state + 1) % 4]_vars
  /\ [][Ticks =>
          IF elapsed >= 100
            THEN spinner_state' = (spinner_state + 1) % 4 /\ elapsed' = 0
            ELSE spinner_state' = spinner_state /\ elapsed' = elapsed]_vars

\* after three advances tick_spinner was called 50 ms after the last one and
\* left SpinnerState alone
C13_Witness ==
  /\ mode = "Running"
  /\ pc = "drain"
  /\ spinner_state = 3
  /\ elapsed = 50

\* C14: main's loop ends only in the step that handles q or Esc in Normal mode
\* with an empty filter text, and then it does end; q or Esc in Normal mode
\* with a filter text clears it, makes every command visible, keeps the
\* Selection (the first command if there was none) and stays in Normal; a key
\* handled in Searching or Running mode never ends the loop; and once ended the
\* loop stays ended.
C14_QuitOnlyInNormal ==
  /\ [][(pc' = "exited" /\ pc # "exited") =>
          /\ KeyHandled
          /\ mode = "Normal"
          /\ search_input = << >>
          /\ key' \in {"q", "Esc"}]_vars
  /\ [][(KeyHandled /\ mode = "Normal" /\ key' \in {"q", "Esc"}) =>
          IF search_input = << >>
            THEN pc' = "exited"
            ELSE /\ pc' = "loop"
                 /\ mode' = "Normal"
                 /\ search_input' = << >>
                 /\ filtered_commands' = << 0, 1, 2, 3, 4, 5 >>
                 /\ selected_index' =
                      IF IsSome(selected_index) THEN selected_index ELSE Some(0)]_vars
  /\ [][(KeyHandled /\ mode # "Normal") => pc' = "loop"]_vars
  /\ [][pc = "exited" => pc' = "exited"]_vars

\* q was pressed in Normal mode while a filter text without matches was set:
\* the filter is cleared, the first command selected, and the loop goes on
C14_Witness ==
  /\ mode = "Normal"
  /\ pc = "loop"
  /\ key = "q"
  /\ search_input = << >>
  /\ selected_index = Some(0)
  /\ Len(children) = 1

\* a child is spawned in this step
Spawns == Len(children') > Len(children)

\* C15 as stated: no child is spawned while an earlier child is still running.
C15_Original ==
  [][Spawns => \A r \in 1..Len(children) : ~children[r].alive]_vars

\* C15, amended: the application is attached to one child at a time. A step
\* spawns at most one child, and only in Normal mode with no receiver held, so
\* never while Mode is Running; while Mode is Running the receiver held is that
\* of the latest child. The child of a cancelled run is not ended by the
\* application and may still be running when the next child is spawned.
C15_OneAttachedChild ==
  /\ [][Spawns =>
          /\ mode = "Normal"
          /\ output_receiver = None
          /\ Len(children') = Len(children) + 1
          /\ output_receiver' = Some(Len(children'))
          /\ \A r \in 1..Len(children) : children'[r] = children[r]]_vars
  /\ [](mode = "Running" => output_receiver = Some(Len(children)))
  /\ [](mode # "Running" => output_receiver = None)
  /\ [][\A r \in 1..Len(children) :
          (children[r].alive /\ ~children'[r].alive) =>
            UNCHANGED << mode, output_receiver, pc, key >>]_vars

\* a second run is shown while the child of the cancelled first run is still
\* running
C15_Witness ==
  /\ mode = "Running"
  /\ Len(children) = 2
  /\ children[1].alive
  /\ children[2].alive
  /\ output_receiver = Some(2)

\* child r was spawned
Spawned(r) == r <= Len(children)

\* C16: a reader ends only at the end of its pipe, after the child has closed
\* it and every item, unreadable ones included, has been taken; while it runs
\* and an item or the end of the pipe is there its next step can be taken,
\* whether or not the receiver of its run is still held; a reader that has
\* ended stays ended; and once a child has ended both its readers eventually
\* end.
C16_ReadersTerminate ==
  /\ [](\A r \in 1..Len(children) :
          /\ children[r].stdout_reader = "done" =>
                ~children[r].alive /\ children[r].out_read = Len(children[r].stdout)
          /\ children[r].stderr_reader = "done" =>
                ~children[r].alive /\ children[r].err_read = Len(children[r].stderr)
          /\ (children[r].stdout_reader = "running" /\
                 (children[r].out_read < Len(children[r].stdout) \/ ~children[r].alive))
                => ENABLED StdoutReader(r)
          /\ (children[r].stderr_reader = "running" /\
                 (children[r].err_read < Len(children[r].stderr) \/ ~children[r].alive))
                => ENABLED StderrReader(r))
  /\ [][\A r \in 1..Len(children) :
          /\ children[r].stdout_reader = "done" => children'[r].stdout_reader = "done"
          /\ children[r].stderr_reader = "done" => children'[r].stderr_reader = "done"]_vars
  /\ \A r \in 1..MaxRuns :
       (Spawned(r) /\ ~children[r].alive) ~>
         (/\ Spawned(r)
          /\ children[r].stdout_reader = "done"
          /\ children[r].stderr_reader = "done")

\* the first run was cancelled before any line was shown; its child wrote a
\* line that could not be read and then a line, and both its readers have ended
C16_Witness ==
  /\ Len(children) = 1
  /\ output_receiver = None
  /\ command_output = << >>
  /\ children[1].stdout[1] = ReadError
  /\ children[1].out_read = 2
  /\ children[1].stdout_reader = "done"
  /\ children[1].stderr_reader = "done"

\* the lines child r can put into a queue
LinesOf(r) ==
  Range(OkLines(children[r].stdout)) \cup
  Range(Prefixed(OkLines(children[r].stderr)))

\* C17: a step of a child whose receiver is not held, or of one of its readers,
\* changes neither the queue nor OutputBuffer; a spawn leaves the queue and
\* OutputBuffer empty; and while a later run is shown, OutputBuffer and the
\* queue hold no more lines than the readers of the later child have read,
\* each of them a line of the later child, whatever the readers of an earlier
\* child still forward.
C17_NoLeakBetweenRuns ==
  /\ [][\A r \in 1..Len(children) :
          (output_receiver # Some(r) /\ children'[r] # children[r]) =>
            UNCHANGED << channel, command_output >>]_vars
  /\ [][Spawns => (channel' = << >> /\ command_output' = << >>)]_vars
  /\ [](mode = "Running" =>
          /\ Len(Lines(command_output)) + Len(channel)
                <= Current.out_read + Current.err_read
          /\ \A r \in 1..(Len(children) - 1) :
                Range(Lines(command_output) \o channel) \cap
                  (LinesOf(r) \ LinesOf(Len(children))) = {})

\* the second run shows its line c while the child of the cancelled first run
\* is still running and its readers have lines left to forward
C17_Witness ==
  /\ mode = "Running"
  /\ Len(children) = 2
  /\ children[1].alive
  /\ children[1].stdout = << Ok(<< "a" >>), Ok(<< "b" >>) >>
  /\ children[1].out_read = 1
  /\ children[1].err_read = 1
  /\ children[2].stdout[1] = ReadError
  /\ command_output = << "c", NL >>

\* a line as the stderr reader forwards it
IsErrorLine(line) ==
  Len(line) >= Len(ErrorPrefix) /\ SubSeq(line, 1, Len(ErrorPrefix)) = ErrorPrefix

\* the lines shown and queued, in the order they were sent
Forwarded == Lines(command_output) \o channel

\* seq begins with pre
IsPrefix(pre, seq) ==
  Len(pre) <= Len(seq) /\ SubSeq(seq, 1, Len(pre)) = pre

\* C18: while a run is shown, the standard output lines among the lines shown
\* and queued are the lines the stdout reader has read, in the order it read
\* them, and likewise the standard error lines, however the two readers and
\* main's loop interleave; a line leaves the queue only by being appended to
\* OutputBuffer, behind the lines sent before it; and when lines are queued
\* the queue is eventually emptied into OutputBuffer unless Mode leaves
\* Running first.
C18_PerStreamOrder ==
  /\ [](mode = "Running" =>
          /\ SelectSeq(Forwarded, LAMBDA l : ~IsErrorLine(l)) =
                LinesRead(Current.stdout, Current.out_read)
          /\ SelectSeq(Forwarded, IsErrorLine) =
                Prefixed(LinesRead(Current.stderr, Current.err_read)))
  /\ [][(mode = "Running" /\ mode' = "Running") =>
          /\ IsPrefix(Forwarded, Forwarded')
          /\ IsPrefix(Lines(command_output), Lines(command_output'))]_vars
  /\ (mode = "Running" /\ channel # << >>) ~>
       (channel = << >> \/ mode # "Running")

\* the standard error line is shown before the two standard output lines
C18_Witness ==
  /\ mode = "Running"
  /\ channel = << >>
  /\ Lines(command_output) =
        << ErrorPrefix \o << "x" >>, << "a" >>, << "b" >> >>

\* how many presses of the escape key it takes to end main's loop
EscapesNeeded ==
  IF pc = "exited" THEN 0
  ELSE IF mode = "Running" THEN (IF search_input = << >> THEN 2 ELSE 3)
  ELSE IF mode = "Searching" THEN 2
  ELSE IF search_input = << >> THEN 1 ELSE 2

\* main handles the escape key
EscHandled ==
  \/ NormalQuit("Esc", 0)
  \/ SearchingEsc("Esc", 0)
  \/ RunningEsc("Esc", 0)

\* C19: in every reachable state at most three presses of the escape key are
\* needed to end main's loop (none once it has ended; one in Normal mode with
\* an empty filter text; two in Normal mode with a filter text, in Searching
\* mode, and in Running mode with an empty filter text; three in Running mode
\* with a filter text); every press of escape that main handles takes one off
\* that number; no step other than a key press changes it; and whenever main
\* waits for a key, escape can be handled.
C19_EscapeExits ==
  /\ [](EscapesNeeded \in 0..3)
  /\ [][(KeyHandled /\ key' = "Esc") => EscapesNeeded' = EscapesNeeded - 1]_vars
  /\ [][~KeyHandled => EscapesNeeded' = EscapesNeeded]_vars
  /\ [](pc = "poll" => ENABLED EscHandled)

\* escape was pressed during a run started with a filter text set; two
\* more presses are needed
C19_Witness ==
  /\ mode = "Normal"
  /\ pc = "loop"
  /\ key = "Esc"
  /\ search_input = << "i" >>
  /\ Len(children) = 1
  /\ children[1].alive

\* what the child shown writes is what the selected command writes when run
LaunchedIsSelected ==
  LET inv == Invocation(is_windows, commands[Unwrap(selected_index) + 1])
  IN  [out |-> Current.stdout, err |-> Current.stderr]
        \in ProgramRuns(inv.program, inv.args, SilentPrograms)

\* C20: a key other than escape handled in Running mode changes nothing of the
\* App, its queue or its children, and main's loop goes on; as long as Mode
\* stays Running, Selection, FilterIndex and the filter text stay as they are
\* and no child is spawned; and throughout Running there is a Selection, and
\* it is the command whose child is shown.
C20_RunningIgnoresKeys ==
  /\ [][(KeyHandled /\ mode = "Running" /\ key' # "Esc") =>
          /\ pc' = "loop"
          /\ UNCHANGED << mode, search_input, filtered_commands, selected_index,
                          command_output, output_receiver, channel, children >>]_vars
  /\ [][(mode = "Running" /\ mode' = "Running") =>
          /\ UNCHANGED << search_input, filtered_commands, selected_index >>
          /\ ~Spawns]_vars
  /\ [](mode = "Running" =>
          /\ IsSome(selected_index)
          /\ SeqContains(filtered_commands, Unwrap(selected_index))
          /\ LaunchedIsSelected)

\* the down key was pressed while echo "testing" runs, found with the filter
\* text i, and the Selection is still on it
C20_Witness ==
  /\ ~is_windows
  /\ mode = "Running"
  /\ pc = "loop"
  /\ key = "Down"
  /\ search_input = << "i" >>
  /\ selected_index = Some(1)
  /\ Current.stdout # << >>

====
